---- MODULE Spec2Model ----
(***************************************************************************)
(* Model of the booking backend of src/phyton/app.py: the Flask handlers   *)
(* confirm_booking, confirm_payment and cancel_calendar_event acting on    *)
(* the two Firestore collections (public view, per-user private view), on  *)
(* the Google Calendar and on the mail dispatcher.                         *)
(*                                                                         *)
(* Instants are minutes since 00:00 UTC of date 0.  A date string is       *)
(* modelled by its day number, a time string "HH:MM" by the pair <<HH,MM>>.*)
(***************************************************************************)
EXTENDS Integers, Sequences, FiniteSets, TLC

\* ------------------------------------------------------------------ bounds

\* Number of booking document ids the store can hand out.
MaxBookings == 2
\* Number of calendar events the remote calendar can hand out.
MaxEvents == 2

\* ---------------------------------------------------------- program values

MinutesPerHour == 60
MinutesPerDay == 1440
\* strptime(f"{selected_date_str} 18:00"): the studio closes at 18:00 local.
ClosingHour == 18
\* utcoffset of pytz.timezone('Asia/Makassar'), in hours.
MakassarOffsetHours == 8

Users == {"u1", "u2"}
\* The users who book under Spec.
Bookers == {"u1"}
\* The request handlers that can run at the same time.
Workers == {1, 2}
Ids == 1..MaxBookings
EventIds == 1..MaxEvents
NoId == 0
NoEvent == 0

Dates == {0, 1}
Times == {<<0, 0>>, <<1, 0>>, <<3, 0>>, <<8, 0>>, <<10, 0>>, <<11, 0>>,
          <<12, 0>>, <<13, 0>>, <<14, 0>>, <<16, 0>>}
Durations == {2}
Zones == {"UTC", "Asia/Makassar", "Pacific/Kiritimati", "Etc/GMT+12"}
PaymentStatuses == {"pending"}

\* bookingData of a request body, as far as confirm_booking reads it.
BookingData ==
    [date : Dates, time : Times, duration : Durations,
     userTimeZone : Zones, paymentStatus : PaymentStatuses]

VARIABLES
    public,            \* artifacts/<project>/public/data/bookings : id -> document
    private,           \* artifacts/<project>/users/<uid>/bookings : <<uid, id>> -> document
    calendar,          \* the remote calendar: event id -> bookingId of its extendedProperties
    nextEvent,         \* the next event id the remote calendar hands out
    calendar_service,  \* module-level handle: TRUE when built, FALSE when None
    mail,              \* the mail server: TRUE when mail.send(msg) succeeds, FALSE when it raises
    last,              \* the response to the last request and the side effects it had
    inflight           \* worker -> the locals of the confirm_booking it runs step by step

vars == <<public, private, calendar, nextEvent, calendar_service, mail, last, inflight>>
store == <<public, private>>

\* ------------------------------------------------------------ Time Normalizer

\* pytz.timezone(name).utcoffset, in minutes (none of the zones has DST;
\* Pacific/Kiritimati, at +14:00, is the zone furthest ahead of UTC and
\* Etc/GMT+12, at -12:00, the one furthest behind).
UtcOffset(tz) ==
    IF tz = "Asia/Makassar" THEN MakassarOffsetHours * MinutesPerHour
    ELSE IF tz = "Pacific/Kiritimati" THEN 14 * MinutesPerHour
    ELSE IF tz = "Etc/GMT+12" THEN (0 - 12) * MinutesPerHour
    ELSE 0

\* datetime.strptime(f"{date} {time}", '%Y-%m-%d %H:%M'), as naive minutes.
ParseDateTime(date, time) ==
    date * MinutesPerDay + time[1] * MinutesPerHour + time[2]

\* local_tz.localize(naive).astimezone(pytz.utc)
ToUtc(date, time, tz) == ParseDateTime(date, time) - UtcOffset(tz)

\* booking_start_dt_utc
StartUtc(b) == ToUtc(b.date, b.time, b.userTimeZone)

\* booking_start_dt_utc + timedelta(hours=duration)
EndUtc(b) == StartUtc(b) + b.duration * MinutesPerHour

\* Mutant: the studio closes at midnight.
ClosingUtc_Midnight(date) == ToUtc(date + 1, <<0, 0>>, "Asia/Makassar")

\* studio_closing_dt_utc for the request's date string
ClosingUtc(date) == ToUtc(date, <<ClosingHour, 0>>, "Asia/Makassar")

\* Mutant: the closing time is taken in the zone of the request.
EndsAfterClosing_RequestZone(bd) ==
    EndUtc(bd) > ToUtc(bd.date, <<ClosingHour, 0>>, bd.userTimeZone)

\* if booking_end_dt_utc > studio_closing_dt_utc
EndsAfterClosing(bd) == EndUtc(bd) > ClosingUtc(bd.date)

\* -------------------------------------------------------- Overlap Checker

\* Mutant: the existing booking is localized in the zone of the request.
OverlapTest_RequestZone(cand, existing) ==
    LET e == [existing EXCEPT !.userTimeZone = cand.userTimeZone] IN
    /\ StartUtc(cand) < EndUtc(e)
    /\ EndUtc(cand) > StartUtc(e)

\* Mutant: the boundaries count as overlap.
OverlapTest_Inclusive(cand, existing) ==
    /\ StartUtc(cand) <= EndUtc(existing)
    /\ EndUtc(cand) >= StartUtc(existing)

\* (StartA < EndB) and (EndA > StartB), on the UTC instants of both bookings
OverlapTest(cand, existing) ==
    /\ StartUtc(cand) < EndUtc(existing)
    /\ EndUtc(cand) > StartUtc(existing)

RECURSIVE SortedSeq(_)
\* The order in which a Firestore query streams documents: by document id.
SortedSeq(S) ==
    IF S = {} THEN <<>>
    ELSE LET m == CHOOSE x \in S : \A y \in S : x <= y
         IN <<m>> \o SortedSeq(S \ {m})

\* bookings_ref.where('date', '==', selected_date_str).stream()
DateQuery(pub, date) == SortedSeq({i \in DOMAIN pub : pub[i].date = date})

RECURSIVE ConflictLoop_FirstOnly(_, _, _, _)
\* Mutant: the loop stops at the first conflict it finds.
ConflictLoop_FirstOnly(pub, docs, bd, editing) ==
    IF docs = <<>> THEN <<>>
    ELSE LET id == Head(docs) IN
         IF editing # NoId /\ id = editing
         THEN ConflictLoop_FirstOnly(pub, Tail(docs), bd, editing)
         ELSE IF OverlapTest(bd, pub[id]) THEN <<id>>
         ELSE ConflictLoop_FirstOnly(pub, Tail(docs), bd, editing)

RECURSIVE ConflictLoop_NoSkip(_, _, _, _)
\* Mutant: the loop does not skip the booking being edited.
ConflictLoop_NoSkip(pub, docs, bd, editing) ==
    IF docs = <<>> THEN <<>>
    ELSE LET id == Head(docs)
             rest == ConflictLoop_NoSkip(pub, Tail(docs), bd, editing)
         IN IF OverlapTest(bd, pub[id]) THEN <<id>> \o rest ELSE rest

RECURSIVE ConflictLoop(_, _, _, _)
\* The for-loop over date_query: appends every overlapping document that is
\* not the one being edited to conflicting_slots.
ConflictLoop(pub, docs, bd, editing) ==
    IF docs = <<>> THEN <<>>
    ELSE LET id == Head(docs)
             rest == ConflictLoop(pub, Tail(docs), bd, editing)
         IN IF editing # NoId /\ id = editing THEN rest
            ELSE IF OverlapTest(bd, pub[id]) THEN <<id>> \o rest
            ELSE rest

\* conflicting_slots of a request
ConflictingSlots(pub, bd, editing) ==
    ConflictLoop(pub, DateQuery(pub, bd.date), bd, editing)

\* ------------------------------------------------------------------ store

\* A collection without documents.
EmptyCollection == [k \in {} |-> NoId]

\* user_email = claims.get('email', ...) of the verified token
EmailOf(u) == <<"mail", u>>

\* client_user_name = data.get('userName', user_name)
NameOf(u) == <<"name", u>>

\* firestore_booking_data: the fields confirm_booking writes.  The fields it
\* does not write are absent: calendarEventId, and the confirmation stamp
\* (paymentConfirmedBy with paymentConfirmedAt), of which the model keeps
\* whether it is there.
FirestoreBookingData(u, bd) ==
    [date |-> bd.date, time |-> bd.time, duration |-> bd.duration,
     userTimeZone |-> bd.userTimeZone, paymentStatus |-> bd.paymentStatus,
     userId |-> u, userName |-> NameOf(u), userEmail |-> EmailOf(u),
     calendarEventId |-> NoEvent, paymentConfirmedAt |-> FALSE]

\* The merge of document.set(data, merge=True): fields present in data
\* replace the stored ones, fields absent from data are kept.
MergeDoc(old, data) ==
    [data EXCEPT
        !.calendarEventId =
            IF data.calendarEventId = NoEvent THEN old.calendarEventId ELSE @,
        !.paymentConfirmedAt =
            IF data.paymentConfirmedAt = FALSE THEN old.paymentConfirmedAt ELSE @]

\* collection.document(key).set(data): the document is replaced or created.
SetDoc(coll, key, data) ==
    [k \in DOMAIN coll \cup {key} |-> IF k = key THEN data ELSE coll[k]]

\* collection.document(key).set(data, merge=True)
SetMerge(coll, key, data) ==
    SetDoc(coll, key, IF key \in DOMAIN coll THEN MergeDoc(coll[key], data) ELSE data)

\* collection.document(key).update({'calendarEventId': e}); the caller has
\* established that the document exists.
UpdateEventId(coll, key, e) == [coll EXCEPT ![key].calendarEventId = e]

\* The ids collection.add() can mint: the ones no document of the store has.
FreshIds(pub, priv) == {i \in Ids : i \notin DOMAIN pub /\ \A u \in Users : <<u, i>> \notin DOMAIN priv}

\* --------------------------------------------------------------- responses

\* send_email for each of the mails: those whose mail.send(msg) raised.  The
\* exception is caught in send_email and printed.
SendEmail(mails) == IF mail THEN {} ELSE mails

\* What a request did: the handler, the status code of its response, the
\* booking id it acted on (NoId when it was rejected or found none), the
\* editingBookingId it came with, the conflictingSlots of the response, the
\* number of store writes (add, set, update) it made, the mails handed to
\* send_email, those of them that could not be sent and the call made on the
\* calendar service.  error is the message of a response made before the
\* conflict check ("none" for every other response).  seq is the parity of
\* the number of requests handled, which tells a response from the one before
\* it.
Response(op, status, bookingId, editing, slots, writes, mails, call) ==
    [op |-> op, status |-> status, bookingId |-> bookingId, editing |-> editing,
     slots |-> slots, writes |-> writes, mails |-> mails, calendarCall |-> call,
     failed |-> SendEmail(mails), error |-> "none", seq |-> 1 - last.seq]

\* ------------------------------------------------------------------- Init

Init ==
    /\ public = EmptyCollection
    /\ private = EmptyCollection
    /\ calendar = EmptyCollection
    /\ nextEvent = 1
    /\ calendar_service \in BOOLEAN
    /\ mail = TRUE
    /\ last = [op |-> "none", status |-> 0, bookingId |-> NoId, editing |-> NoId,
               slots |-> <<>>, writes |-> 0, mails |-> {}, calendarCall |-> "none",
               failed |-> {}, error |-> "none", seq |-> 0]
    /\ inflight = EmptyCollection

\* --------------------------------------------------------- confirm_booking

\* Mutant: an Edit writes the private view and leaves the public record.
BookingWrites_EditPrivateOnly(pub, priv, u, id, data, editing) ==
    IF editing # NoId
    THEN <<pub, SetMerge(priv, <<u, id>>, data)>>
    ELSE <<SetDoc(pub, id, data), SetDoc(priv, <<u, id>>, data)>>

\* The two store writes of confirm_booking, as <<public view, private view>>.
BookingWrites(pub, priv, u, id, data, editing) ==
    IF editing # NoId
    THEN <<SetMerge(pub, id, data), SetMerge(priv, <<u, id>>, data)>>
    ELSE <<SetDoc(pub, id, data), SetDoc(priv, <<u, id>>, data)>>

\* Mutant: the conflict is found after the private view was written.
Rejected_PrivateWritten(u, bd, editing, slots) ==
    /\ last' = Response("confirm_booking", 409, NoId, editing, slots, 1, {}, "none")
    /\ private' = SetMerge(private, <<u, IF editing # NoId THEN editing ELSE 1>>,
                           FirestoreBookingData(u, bd))
    /\ UNCHANGED <<public, calendar, nextEvent, calendar_service, mail, inflight>>

\* The two 409 returns of confirm_booking (closing time, conflicts): the
\* handler returns before it writes, calls the calendar or sends mail.
Rejected(u, bd, editing, slots) ==
    /\ last' = Response("confirm_booking", 409, NoId, editing, slots, 0, {}, "none")
    /\ UNCHANGED <<public, private, calendar, nextEvent, calendar_service, mail, inflight>>

\* Mutant: a failed calendar insert aborts the request and the store writes
\* are rolled back.
AfterWrites_AbortOnFailure(u, id, editing, pub, priv) ==
    IF ~calendar_service
    THEN /\ public' = pub
         /\ private' = priv
         /\ last' = Response("confirm_booking", 200, id, editing, <<>>, 2, {"client", "admin"}, "none")
         /\ UNCHANGED <<calendar, nextEvent, calendar_service, mail>>
    ELSE \/ /\ nextEvent \in EventIds
            /\ calendar' = SetDoc(calendar, nextEvent, id)
            /\ nextEvent' = nextEvent + 1
            /\ public' = UpdateEventId(pub, id, nextEvent)
            /\ private' = UpdateEventId(priv, <<u, id>>, nextEvent)
            /\ last' = Response("confirm_booking", 200, id, editing, <<>>, 4, {"client", "admin"}, "insert")
            /\ UNCHANGED <<calendar_service, mail>>
         \/ /\ last' = Response("confirm_booking", 500, NoId, editing, <<>>, 0, {}, "insert_failed")
            /\ UNCHANGED <<public, private, calendar, nextEvent, calendar_service, mail>>

\* Mutant: the event id of a successful insert is stored in the public view
\* only.
AfterWrites_PublicOnly(u, id, editing, pub, priv) ==
    IF ~calendar_service
    THEN /\ public' = pub
         /\ private' = priv
         /\ last' = Response("confirm_booking", 200, id, editing, <<>>, 2, {"client", "admin"}, "none")
         /\ UNCHANGED <<calendar, nextEvent, calendar_service, mail>>
    ELSE \/ /\ nextEvent \in EventIds
            /\ calendar' = SetDoc(calendar, nextEvent, id)
            /\ nextEvent' = nextEvent + 1
            /\ public' = UpdateEventId(pub, id, nextEvent)
            /\ private' = priv
            /\ last' = Response("confirm_booking", 200, id, editing, <<>>, 3, {"client", "admin"}, "insert")
            /\ UNCHANGED <<calendar_service, mail>>
         \/ /\ public' = pub
            /\ private' = priv
            /\ last' = Response("confirm_booking", 200, id, editing, <<>>, 2, {"client", "admin"}, "insert_failed")
            /\ UNCHANGED <<calendar, nextEvent, calendar_service, mail>>

\* confirm_booking after its two store writes left the views pub and priv:
\* the calendar insert with the two calendarEventId updates when there is a
\* calendar service, the two mails, the 200 response.
AfterWrites(u, id, editing, pub, priv) ==
    IF ~calendar_service
    THEN /\ public' = pub
         /\ private' = priv
         /\ last' = Response("confirm_booking", 200, id, editing, <<>>, 2, {"client", "admin"}, "none")
         /\ UNCHANGED <<calendar, nextEvent, calendar_service, mail>>
    ELSE \/ /\ nextEvent \in EventIds
            /\ calendar' = SetDoc(calendar, nextEvent, id)
            /\ nextEvent' = nextEvent + 1
            /\ public' = UpdateEventId(pub, id, nextEvent)
            /\ private' = UpdateEventId(priv, <<u, id>>, nextEvent)
            /\ last' = Response("confirm_booking", 200, id, editing, <<>>, 4, {"client", "admin"}, "insert")
            /\ UNCHANGED <<calendar_service, mail>>
         \/ /\ public' = pub
            /\ private' = priv
            /\ last' = Response("confirm_booking", 200, id, editing, <<>>, 2, {"client", "admin"}, "insert_failed")
            /\ UNCHANGED <<calendar, nextEvent, calendar_service, mail>>

\* POST /api/confirm-booking by authenticated user u with bookingData bd and
\* editingBookingId editing (NoId for a Create).  The id minted by add() and
\* the outcome of calendar_service.events().insert(...).execute() are chosen
\* where the handler reaches them.
ConfirmBooking(u, bd, editing) ==
    LET slots == ConflictingSlots(public, bd, editing) IN
    IF EndsAfterClosing(bd)
    THEN Rejected(u, bd, editing, <<>>)
    ELSE IF slots # <<>>
    THEN Rejected(u, bd, editing, slots)
    ELSE \E id \in (IF editing # NoId THEN {editing} ELSE FreshIds(public, private)) :
         LET data == FirestoreBookingData(u, bd)
             written == BookingWrites(public, private, u, id, data, editing)
         IN AfterWrites(u, id, editing, written[1], written[2]) /\ UNCHANGED inflight

\* ------------------------------------------- confirm_booking, interleaved

\* The worker has no request in hand: none yet, or it has responded.
Idle(w) == IF w \in DOMAIN inflight THEN inflight[w].pc = "done" ELSE TRUE

\* Worker w receives a confirm-booking request and runs it up to the end of
\* the conflict loop: the date query is the one read of the public view.
CheckConflicts(w, u, bd, editing) ==
    LET slots == ConflictingSlots(public, bd, editing) IN
    /\ Idle(w)
    /\ IF EndsAfterClosing(bd)
       THEN Rejected(u, bd, editing, <<>>)
       ELSE IF slots # <<>>
       THEN Rejected(u, bd, editing, slots)
       ELSE /\ inflight' = SetDoc(inflight, w,
                                  [pc |-> "checked", user |-> u, bd |-> bd,
                                   editing |-> editing, id |-> NoId])
            /\ UNCHANGED <<public, private, calendar, nextEvent, calendar_service, mail, last>>

\* Worker w makes the write of the private view: set(merge=True) for an Edit,
\* add() for a Create, which mints the booking id.
WritePrivate(w) ==
    /\ w \in DOMAIN inflight /\ inflight[w].pc = "checked"
    /\ LET r == inflight[w] IN
       \E id \in (IF r.editing # NoId THEN {r.editing} ELSE FreshIds(public, private)) :
          /\ private' = BookingWrites(public, private, r.user, id,
                                      FirestoreBookingData(r.user, r.bd), r.editing)[2]
          /\ inflight' = [inflight EXCEPT ![w].pc = "private_written", ![w].id = id]
          /\ UNCHANGED <<public, calendar, nextEvent, calendar_service, mail, last>>

\* Mutant: the public write is made in a transaction that repeats the
\* conflict loop and gives up when a conflicting booking has appeared.
WritePublic_Recheck(w) ==
    /\ w \in DOMAIN inflight /\ inflight[w].pc = "private_written"
    /\ LET r == inflight[w] IN
       IF ConflictingSlots(public, r.bd, r.id) # <<>>
       THEN /\ last' = Response("confirm_booking", 409, NoId, r.editing,
                                ConflictingSlots(public, r.bd, r.id), 1, {}, "none")
            /\ inflight' = [inflight EXCEPT ![w].pc = "done"]
            /\ UNCHANGED <<public, private, calendar, nextEvent, calendar_service, mail>>
       ELSE /\ AfterWrites(r.user, r.id, r.editing,
                           BookingWrites(public, private, r.user, r.id,
                                         FirestoreBookingData(r.user, r.bd), r.editing)[1],
                           private)
            /\ inflight' = [inflight EXCEPT ![w].pc = "done"]

\* Worker w makes the write of the public view and runs the handler to its
\* end.  Nothing between the conflict loop and this write reads the public
\* view again.
WritePublic(w) ==
    /\ w \in DOMAIN inflight /\ inflight[w].pc = "private_written"
    /\ LET r == inflight[w] IN
       /\ AfterWrites(r.user, r.id, r.editing,
                      BookingWrites(public, private, r.user, r.id,
                                    FirestoreBookingData(r.user, r.bd), r.editing)[1],
                      private)
       /\ inflight' = [inflight EXCEPT ![w].pc = "done"]

\* --------------------------------------------------------- confirm_payment

\* booking_data after the three assignments of confirm_payment
PaidData(doc, admin) ==
    [doc EXCEPT !.paymentStatus = "paid", !.paymentConfirmedAt = TRUE]

\* Mutant: no early return for a booking that is already paid.
ConfirmPayment_NoPaidCheck(admin, id) ==
    IF id \notin DOMAIN public
    THEN /\ last' = Response("confirm_payment", 404, NoId, NoId, <<>>, 0, {}, "none")
         /\ UNCHANGED <<public, private, calendar, nextEvent, calendar_service, mail, inflight>>
    ELSE LET data == PaidData(public[id], admin) IN
         /\ public' = SetMerge(public, id, data)
         /\ private' = SetMerge(private, <<data.userId, id>>, data)
         /\ last' = Response("confirm_payment", 200, id, NoId, <<>>, 2, {"payment"}, "none")
         /\ UNCHANGED <<calendar, nextEvent, calendar_service, mail, inflight>>

\* Mutant: the payment is written to the public view only.
ConfirmPayment_PublicOnly(admin, id) ==
    IF id \notin DOMAIN public
    THEN /\ last' = Response("confirm_payment", 404, NoId, NoId, <<>>, 0, {}, "none")
         /\ UNCHANGED <<public, private, calendar, nextEvent, calendar_service, mail, inflight>>
    ELSE IF public[id].paymentStatus = "paid"
    THEN /\ last' = Response("confirm_payment", 200, id, NoId, <<>>, 0, {}, "none")
         /\ UNCHANGED <<public, private, calendar, nextEvent, calendar_service, mail, inflight>>
    ELSE LET data == PaidData(public[id], admin) IN
         /\ public' = SetMerge(public, id, data)
         /\ last' = Response("confirm_payment", 200, id, NoId, <<>>, 1, {"payment"}, "none")
         /\ UNCHANGED <<private, calendar, nextEvent, calendar_service, mail, inflight>>

\* Mutant: a booking that is not found is answered like one already paid.
ConfirmPayment_MissingIsPaid(admin, id) ==
    IF id \notin DOMAIN public
    THEN /\ last' = Response("confirm_payment", 200, id, NoId, <<>>, 0, {}, "none")
         /\ UNCHANGED <<public, private, calendar, nextEvent, calendar_service, mail, inflight>>
    ELSE IF public[id].paymentStatus = "paid"
    THEN /\ last' = Response("confirm_payment", 200, id, NoId, <<>>, 0, {}, "none")
         /\ UNCHANGED <<public, private, calendar, nextEvent, calendar_service, mail, inflight>>
    ELSE LET data == PaidData(public[id], admin) IN
         /\ public' = SetMerge(public, id, data)
         /\ private' = SetMerge(private, <<data.userId, id>>, data)
         /\ last' = Response("confirm_payment", 200, id, NoId, <<>>, 2, {"payment"}, "none")
         /\ UNCHANGED <<calendar, nextEvent, calendar_service, mail, inflight>>

\* POST /api/confirm-payment by authenticated user admin for bookingId id.
ConfirmPayment(admin, id) ==
    IF id \notin DOMAIN public
    THEN /\ last' = Response("confirm_payment", 404, NoId, NoId, <<>>, 0, {}, "none")
         /\ UNCHANGED <<public, private, calendar, nextEvent, calendar_service, mail, inflight>>
    ELSE IF public[id].paymentStatus = "paid"
    THEN /\ last' = Response("confirm_payment", 200, id, NoId, <<>>, 0, {}, "none")
         /\ UNCHANGED <<public, private, calendar, nextEvent, calendar_service, mail, inflight>>
    ELSE LET data == PaidData(public[id], admin) IN
         /\ public' = SetMerge(public, id, data)
         /\ private' = SetMerge(private, <<data.userId, id>>, data)
         /\ last' = Response("confirm_payment", 200, id, NoId, <<>>, 2, {"payment"}, "none")
         /\ UNCHANGED <<calendar, nextEvent, calendar_service, mail, inflight>>

\* --------------------------------------------------- cancel_calendar_event

\* Mutant: the event id is removed from the public record before the remote
\* delete is known to have succeeded.
CancelCalendarEvent_UpdateFirst(u, e, id) ==
    IF ~calendar_service
    THEN /\ last' = Response("cancel_calendar_event", 200, NoId, NoId, <<>>, 0, {}, "none")
         /\ UNCHANGED <<public, private, calendar, nextEvent, calendar_service, mail, inflight>>
    ELSE \/ /\ last' = Response("cancel_calendar_event", 500, NoId, NoId, <<>>, 1, {},
                                IF e \in DOMAIN calendar THEN "delete_failed" ELSE "delete_gone")
            /\ public' = IF id \in DOMAIN public THEN UpdateEventId(public, id, NoEvent)
                          ELSE public
            /\ UNCHANGED <<private, calendar, nextEvent, calendar_service, mail, inflight>>
         \/ /\ e \in DOMAIN calendar
            /\ calendar' = [k \in DOMAIN calendar \ {e} |-> calendar[k]]
            /\ UNCHANGED <<nextEvent, calendar_service, mail, inflight>>
            /\ IF id \notin DOMAIN public
               THEN \* update() of a missing document raises NotFound
                    /\ last' = Response("cancel_calendar_event", 500, NoId, NoId, <<>>, 0, {}, "delete")
                    /\ UNCHANGED <<public, private>>
               ELSE LET owner == public[id].userId IN
                    /\ public' = UpdateEventId(public, id, NoEvent)
                    /\ IF <<owner, id>> \in DOMAIN private
                       THEN /\ private' = UpdateEventId(private, <<owner, id>>, NoEvent)
                            /\ last' = Response("cancel_calendar_event", 200, id, NoId, <<>>, 2, {}, "delete")
                       ELSE /\ last' = Response("cancel_calendar_event", 500, NoId, NoId, <<>>, 1, {}, "delete")
                            /\ UNCHANGED private

\* DELETE /api/cancel-calendar-event by authenticated user u with
\* calendarEventId e and bookingId id.  events().delete(...).execute() raises
\* HttpError when the calendar does not hold the event ("delete_gone"), and
\* may fail anyway ("delete_failed").
CancelCalendarEvent(u, e, id) ==
    IF ~calendar_service
    THEN /\ last' = Response("cancel_calendar_event", 200, NoId, NoId, <<>>, 0, {}, "none")
         /\ UNCHANGED <<public, private, calendar, nextEvent, calendar_service, mail, inflight>>
    ELSE \/ /\ last' = Response("cancel_calendar_event", 500, NoId, NoId, <<>>, 0, {},
                                IF e \in DOMAIN calendar THEN "delete_failed" ELSE "delete_gone")
            /\ UNCHANGED <<public, private, calendar, nextEvent, calendar_service, mail, inflight>>
         \/ /\ e \in DOMAIN calendar
            /\ calendar' = [k \in DOMAIN calendar \ {e} |-> calendar[k]]
            /\ UNCHANGED <<nextEvent, calendar_service, mail, inflight>>
            /\ IF id \notin DOMAIN public
               THEN \* update() of a missing document raises NotFound
                    /\ last' = Response("cancel_calendar_event", 500, NoId, NoId, <<>>, 0, {}, "delete")
                    /\ UNCHANGED <<public, private>>
               ELSE LET owner == public[id].userId IN
                    /\ public' = UpdateEventId(public, id, NoEvent)
                    /\ IF <<owner, id>> \in DOMAIN private
                       THEN /\ private' = UpdateEventId(private, <<owner, id>>, NoEvent)
                            /\ last' = Response("cancel_calendar_event", 200, id, NoId, <<>>, 2, {}, "delete")
                       ELSE /\ last' = Response("cancel_calendar_event", 500, NoId, NoId, <<>>, 1, {}, "delete")
                            /\ UNCHANGED private

\* ------------------------------------------------------ check_booked_slots

\* Mutant: the entry carries the payment status of the booking.
BookedSlot_WithPayment(id, booking) ==
    [id |-> id, time |-> booking.time, duration |-> booking.duration,
     userName |-> booking.userName, userTimeZone |-> booking.userTimeZone,
     paymentStatus |-> booking.paymentStatus]

\* The entry appended to booked_slots for document id.
BookedSlot(id, booking) ==
    [id |-> id, time |-> booking.time, duration |-> booking.duration,
     userName |-> booking.userName, userTimeZone |-> booking.userTimeZone]

\* booked_slots: one entry for every document of the date query.
BookedSlots(pub, date) ==
    LET query == DateQuery(pub, date) IN
    [i \in 1..Len(query) |-> BookedSlot(query[i], pub[query[i]])]

\* GET /api/check-booked-slots?date=... by authenticated user u.
CheckBookedSlots(u, date) ==
    /\ last' = Response("check_booked_slots", 200, NoId, NoId,
                        BookedSlots(public, date), 0, {}, "none")
    /\ UNCHANGED <<public, private, calendar, nextEvent, calendar_service, mail, inflight>>

\* ------------------------------------------------------------ environment

\* The mail server goes down or comes back.
MailOutage ==
    /\ mail' = ~mail
    /\ UNCHANGED <<public, private, calendar, nextEvent, calendar_service, last, inflight>>

\* The application is started again: the store and the remote calendar are
\* as they were, calendar_service is built anew or is None (no credentials,
\* or build() raised).
Restart ==
    /\ calendar_service' \in BOOLEAN
    /\ UNCHANGED <<public, private, calendar, nextEvent, mail, last, inflight>>

\* -------------------------------------------------------------- behaviours

\* The requests of one step: confirm_booking by a user of bookers with
\* bookingData of data, confirm_payment and cancel_calendar_event by any user.
Requests(bookers, data) ==
    \/ \E u \in bookers, bd \in data, editing \in Ids \cup {NoId} :
          ConfirmBooking(u, bd, editing)
    \/ \E admin \in Users, id \in Ids : ConfirmPayment(admin, id)
    \/ \E u \in Users, e \in EventIds, id \in Ids : CancelCalendarEvent(u, e, id)

\* The deployment without GOOGLE_APPLICATION_CREDENTIALS_BASE64:
\* calendar_service is None.
InitNoCalendar == Init /\ ~calendar_service

\* The deployment with a calendar service.
InitCalendar == Init /\ calendar_service

\* The requests of one day: bookings of date 0 made in the studio's zone
\* from 10:00 to 13:00, and in UTC at 03:00 (11:00 in the studio's zone) and
\* at 10:00 (the studio's closing time).
SequentialData ==
    {bd \in BookingData :
        \/ bd.date = 0 /\ bd.userTimeZone = "Asia/Makassar"
                       /\ bd.time \in {<<10, 0>>, <<11, 0>>, <<12, 0>>, <<13, 0>>}
        \/ bd.date = 0 /\ bd.userTimeZone = "UTC" /\ bd.time \in {<<3, 0>>, <<10, 0>>}}

\* One client books, any user confirms payments and cancels events.
Next == Requests(Bookers, SequentialData)

\* Requests are processed one at a time, each handler running to completion.
Spec == InitNoCalendar /\ [][Next]_vars

\* The requests of the deployment with a calendar: bookings in the studio's
\* zone at 10:00 and 13:00.
CalendarData ==
    {bd \in BookingData : /\ bd.date = 0 /\ bd.userTimeZone = "Asia/Makassar"
                          /\ bd.time \in {<<10, 0>>, <<13, 0>>}}

NextCalendar == Requests(Bookers, CalendarData)

\* One client books, with the calendar service available.
SpecCalendar == InitCalendar /\ [][NextCalendar]_vars

\* The requests of two clients: bookings in the studio's zone at 10:00 and
\* 13:00.
SharedData ==
    {bd \in BookingData : /\ bd.date = 0 /\ bd.userTimeZone = "Asia/Makassar"
                          /\ bd.time \in {<<10, 0>>, <<13, 0>>}}

NextUsers == Requests(Users, SharedData)

\* Two clients book and edit, without calendar.
SpecUsers == InitNoCalendar /\ [][NextUsers]_vars

\* The requests around midnight: bookings of date 0 that end at the closing
\* time (08:00 UTC, which is 16:00 in the studio's zone) or touch them (14:00
\* in the studio's zone), and bookings of date 1 made at 00:00 and 01:00 in
\* Pacific/Kiritimati, the earliest instants a booking of date 1 can have.
DatesData ==
    {bd \in BookingData :
        \/ bd.date = 0 /\ bd.userTimeZone = "UTC" /\ bd.time = <<8, 0>>
        \/ bd.date = 0 /\ bd.userTimeZone = "Asia/Makassar"
                       /\ bd.time \in {<<14, 0>>, <<16, 0>>}
        \/ bd.date = 1 /\ bd.userTimeZone = "Pacific/Kiritimati"
                       /\ bd.time \in {<<0, 0>>, <<1, 0>>}}

NextDates == Requests(Bookers, DatesData)

\* One client books on two dates, from zones in which the dates differ.
SpecDates == InitNoCalendar /\ [][NextDates]_vars

\* The requests of the degraded deployment: one slot in the studio's zone.
DegradedData ==
    {bd \in BookingData : /\ bd.date = 0 /\ bd.userTimeZone = "Asia/Makassar"
                          /\ bd.time = <<10, 0>>}

NextDegraded ==
    \/ Requests(Bookers, DegradedData)
    \/ MailOutage

\* One client books while calendar calls can fail and the mail server comes
\* and goes.
SpecDegraded == InitCalendar /\ [][NextDegraded]_vars

NextRestart ==
    \/ Requests(Bookers, DegradedData)
    \/ Restart

\* One client books one slot while the application is restarted with and
\* without calendar service.
SpecRestart == InitCalendar /\ [][NextRestart]_vars

NextHandover == Requests(Users, DegradedData)

\* Two clients book and edit one slot, without calendar: a booking passes
\* from one to the other.
SpecHandover == InitNoCalendar /\ [][NextHandover]_vars

NextSlots ==
    \/ Requests(Bookers, SharedData)
    \/ \E u \in Users, date \in Dates : CheckBookedSlots(u, date)

\* One client books and any user lists the booked slots of a date.
SpecSlots == InitNoCalendar /\ [][NextSlots]_vars

\* Durations a request can carry that are not positive.
InvalidDurations == {-1, 0}

\* The requests for one slot with positive, zero and negative durations.
DurationData ==
    {[bd EXCEPT !.duration = d] : bd \in DegradedData, d \in Durations \cup InvalidDurations}

NextDurations == Requests(Bookers, DurationData)

\* One client books one slot with any duration, without calendar.
SpecDurations == InitNoCalendar /\ [][NextDurations]_vars

\* The requests on both sides of the date line: of date 0 the bookings that
\* end at closing time, made at 08:00 in UTC and at 16:00 in the studio's
\* zone; of date 1 the booking made at 00:00 in Pacific/Kiritimati, the
\* earliest instant a booking of date 1 can have, which is 10:00 UTC of date
\* 0; of date 0 the bookings made at 10:00 in UTC, that same instant, and at
\* 14:00 in Etc/GMT+12, which is 02:00 UTC of date 1.
DateLineData ==
    {bd \in BookingData :
        \/ bd.date = 0 /\ bd.userTimeZone = "UTC" /\ bd.time \in {<<8, 0>>, <<10, 0>>}
        \/ bd.date = 0 /\ bd.userTimeZone = "Asia/Makassar" /\ bd.time = <<16, 0>>
        \/ bd.date = 1 /\ bd.userTimeZone = "Pacific/Kiritimati" /\ bd.time = <<0, 0>>
        \/ bd.date = 0 /\ bd.userTimeZone = "Etc/GMT+12" /\ bd.time = <<14, 0>>}

NextDateLine == Requests(Bookers, DateLineData)

\* One client books on two dates from zones on both sides of the date line.
SpecDateLine == InitNoCalendar /\ [][NextDateLine]_vars

\* The requests around closing time, on both dates: from each zone the
\* booking that ends at 18:00 in the studio's zone and the one that ends an
\* hour later.
ClosingData ==
    {[date |-> d, time |-> slot[2], duration |-> 2, userTimeZone |-> slot[1],
      paymentStatus |-> "pending"] :
        d \in Dates,
        slot \in {<<"Asia/Makassar", <<16, 0>>>>, <<"Asia/Makassar", <<17, 0>>>>,
                  <<"UTC", <<8, 0>>>>, <<"UTC", <<9, 0>>>>,
                  <<"Pacific/Kiritimati", <<22, 0>>>>, <<"Pacific/Kiritimati", <<23, 0>>>>}}

NextClosing == Requests(Bookers, ClosingData)

\* One client books around closing time from three zones, without calendar.
SpecClosing == InitNoCalendar /\ [][NextClosing]_vars

\* The requests of the concurrent deployment: bookings in the studio's zone
\* at 10:00 and 11:00, which overlap.
ConcurrentData ==
    {bd \in BookingData : /\ bd.date = 0 /\ bd.userTimeZone = "Asia/Makassar"
                          /\ bd.time \in {<<10, 0>>, <<11, 0>>}}

NextConcurrent ==
    \/ \E w \in Workers, u \in Bookers, bd \in ConcurrentData, editing \in Ids \cup {NoId} :
          CheckConflicts(w, u, bd, editing)
    \/ \E w \in Workers : WritePrivate(w)
    \/ \E w \in Workers : WritePublic(w)

\* Two workers handle confirm-booking requests at the same time, their store
\* accesses interleaved.
SpecConcurrent == InitNoCalendar /\ [][NextConcurrent]_vars

\* ------------------------------------------ confirm_booking, step by step

\* Mutant: the handler goes on to the calendar without the public write.
WritePublicOnly_Skipped(w) ==
    /\ w \in DOMAIN inflight /\ inflight[w].pc = "private_written"
    /\ inflight' = [inflight EXCEPT ![w].pc = "public_written"]
    /\ UNCHANGED <<public, private, calendar, nextEvent, calendar_service, mail, last>>

\* Worker w makes the write of the public view: set(merge=True) for an Edit,
\* set() under the id minted by add() for a Create.
WritePublicOnly(w) ==
    /\ w \in DOMAIN inflight /\ inflight[w].pc = "private_written"
    /\ LET r == inflight[w] IN
       public' = BookingWrites(public, private, r.user, r.id,
                               FirestoreBookingData(r.user, r.bd), r.editing)[1]
    /\ inflight' = [inflight EXCEPT ![w].pc = "public_written"]
    /\ UNCHANGED <<private, calendar, nextEvent, calendar_service, mail, last>>

\* Worker w runs the calendar block: without calendar service it is skipped;
\* with it events().insert(...).execute() either returns the created event,
\* whose id is stored on the booking in both views, or raises, which is
\* printed.
CalendarSync(w) ==
    /\ w \in DOMAIN inflight /\ inflight[w].pc = "public_written"
    /\ LET r == inflight[w] IN
       IF ~calendar_service
       THEN /\ inflight' = [inflight EXCEPT ![w].pc = "skipped"]
            /\ UNCHANGED <<public, private, calendar, nextEvent, calendar_service, mail, last>>
       ELSE \/ /\ nextEvent \in EventIds
               /\ calendar' = SetDoc(calendar, nextEvent, r.id)
               /\ nextEvent' = nextEvent + 1
               /\ public' = UpdateEventId(public, r.id, nextEvent)
               /\ private' = UpdateEventId(private, <<r.user, r.id>>, nextEvent)
               /\ inflight' = [inflight EXCEPT ![w].pc = "inserted"]
               /\ UNCHANGED <<calendar_service, mail, last>>
            \/ /\ inflight' = [inflight EXCEPT ![w].pc = "insert_failed"]
               /\ UNCHANGED <<public, private, calendar, nextEvent, calendar_service, mail, last>>

\* Worker w sends the two mails and answers 200.
Notify(w) ==
    /\ w \in DOMAIN inflight
    /\ inflight[w].pc \in {"skipped", "inserted", "insert_failed"}
    /\ LET r == inflight[w] IN
       last' = Response("confirm_booking", 200, r.id, r.editing, <<>>,
                        IF r.pc = "inserted" THEN 4 ELSE 2, {"client", "admin"},
                        IF r.pc = "inserted" THEN "insert"
                        ELSE IF r.pc = "insert_failed" THEN "insert_failed" ELSE "none")
    /\ inflight' = [inflight EXCEPT ![w].pc = "done"]
    /\ UNCHANGED <<public, private, calendar, nextEvent, calendar_service, mail>>

\* The handlers that run confirm_booking step by step.
BookingWorkers == {1}

NextSteps ==
    \/ \E w \in BookingWorkers, u \in Bookers, bd \in CalendarData, editing \in Ids \cup {NoId} :
          CheckConflicts(w, u, bd, editing)
    \/ \E w \in BookingWorkers : WritePrivate(w)
    \/ \E w \in BookingWorkers : WritePublicOnly(w)
    \/ \E w \in BookingWorkers : CalendarSync(w)
    \/ \E w \in BookingWorkers : Notify(w)

\* One confirm_booking at a time, each of its effects a step of its own, in
\* the deployment with and in the one without a calendar service.
SpecSteps == Init /\ [][NextSteps]_vars

\* The answer of the last except clause of confirm_booking to an exception
\* raised by a store call of worker w, after writes writes were made.
StoreError(w, writes) ==
    /\ last' = Response("confirm_booking", 500, NoId, inflight[w].editing, <<>>,
                        writes, {}, "none")
    /\ inflight' = [inflight EXCEPT ![w].pc = "done"]
    /\ UNCHANGED <<public, private, calendar, nextEvent, calendar_service, mail>>

\* The write of the private view raises (the store cannot be reached, the
\* write is refused): nothing was written.
WritePrivateFails(w) ==
    /\ w \in DOMAIN inflight /\ inflight[w].pc = "checked"
    /\ StoreError(w, 0)

\* The write of the public view raises: the private view has been written.
WritePublicFails(w) ==
    /\ w \in DOMAIN inflight /\ inflight[w].pc = "private_written"
    /\ StoreError(w, 1)

NextFaults ==
    \/ NextSteps
    \/ \E w \in BookingWorkers : WritePrivateFails(w)
    \/ \E w \in BookingWorkers : WritePublicFails(w)

\* One confirm_booking at a time, effect by effect, with store writes that
\* can fail.
SpecFaults == Init /\ [][NextFaults]_vars

\* ------------------------------------------- confirm_payment, interleaved

\* Worker w receives a confirm-payment request and runs it up to the three
\* assignments to booking_data, the dict of the snapshot it read.
ReadBooking(w, admin, id) ==
    /\ Idle(w)
    /\ IF id \notin DOMAIN public
       THEN /\ last' = Response("confirm_payment", 404, NoId, NoId, <<>>, 0, {}, "none")
            /\ UNCHANGED <<public, private, calendar, nextEvent, calendar_service, mail, inflight>>
       ELSE IF public[id].paymentStatus = "paid"
       THEN /\ last' = Response("confirm_payment", 200, id, NoId, <<>>, 0, {}, "none")
            /\ UNCHANGED <<public, private, calendar, nextEvent, calendar_service, mail, inflight>>
       ELSE /\ inflight' = SetDoc(inflight, w,
                                  [pc |-> "read", user |-> admin,
                                   bd |-> PaidData(public[id], admin),
                                   editing |-> NoId, id |-> id])
            /\ UNCHANGED <<public, private, calendar, nextEvent, calendar_service, mail, last>>

\* Worker w makes public_booking_doc_ref.set(booking_data, merge=True): every
\* field of the snapshot is in booking_data.
WritePublicPayment(w) ==
    /\ w \in DOMAIN inflight /\ inflight[w].pc = "read"
    /\ public' = SetMerge(public, inflight[w].id, inflight[w].bd)
    /\ inflight' = [inflight EXCEPT ![w].pc = "public_paid"]
    /\ UNCHANGED <<private, calendar, nextEvent, calendar_service, mail, last>>

\* Worker w makes user_booking_doc_ref.set(booking_data, merge=True) in the
\* private view of the userId it read, sends the mail and answers.
WritePrivatePayment(w) ==
    /\ w \in DOMAIN inflight /\ inflight[w].pc = "public_paid"
    /\ private' = SetMerge(private, <<inflight[w].bd.userId, inflight[w].id>>, inflight[w].bd)
    /\ last' = Response("confirm_payment", 200, inflight[w].id, NoId, <<>>, 2, {"payment"}, "none")
    /\ inflight' = [inflight EXCEPT ![w].pc = "done"]
    /\ UNCHANGED <<public, calendar, nextEvent, calendar_service, mail>>

\* The handlers that run confirm_payment step by step.
PaymentWorkers == {1}

NextPayment ==
    \/ \E u \in Bookers, bd \in SharedData, editing \in Ids \cup {NoId} :
          ConfirmBooking(u, bd, editing)
    \/ \E w \in PaymentWorkers, admin \in Bookers, id \in Ids : ReadBooking(w, admin, id)
    \/ \E w \in PaymentWorkers : WritePublicPayment(w)
    \/ \E w \in PaymentWorkers : WritePrivatePayment(w)

\* One payment confirmation at a time runs step by step while a client books
\* and edits.
SpecPayment == InitNoCalendar /\ [][NextPayment]_vars

\* ------------------------------------------------ the requests as received

\* The Authorization headers a request can come with: the valid token of a
\* client (written as the user_id of its claims), no header, a token that
\* verify_firebase_token refuses.
Tokens == Bookers \cup {"missing", "forged"}

\* verify_token returns the claims (TRUE) or raises ValueError (FALSE).
VerifyToken(auth) == auth \in Users

\* The value of local_tz when pytz.timezone raised UnknownTimeZoneError.
NoZone == "unknown"

\* Mutant: a zone name that does not resolve is replaced by the default zone.
LocalTz_DefaultZone(user_timezone) ==
    IF user_timezone \in Zones THEN user_timezone ELSE "UTC"

\* local_tz = pytz.timezone(user_timezone)
LocalTz(user_timezone) ==
    IF user_timezone \in Zones THEN user_timezone ELSE NoZone

\* strptime(..., '%Y-%m-%d %H:%M') accepts the time string.
WellFormedTime(time) == time[1] \in 0..23 /\ time[2] \in 0..59

\* The error messages of the responses made before the conflict check; a
\* KeyError and a ValueError of verify_token are answered with str(e).
MissingHeader == "Authorization header missing."
InvalidToken == "Invalid token"
MissingData == "Booking data is missing"
InvalidFormat == "Invalid timezone or date/time format."
KeyError == "KeyError"
MissingBookingId == "Booking ID is missing."
MissingEventIdField == "calendarEventId is missing"
MissingBookingIdField == "bookingId is missing"

\* str(e) of the ValueError verify_token raises for header auth.
TokenError(auth) == IF auth = "missing" THEN MissingHeader ELSE InvalidToken

\* Mutant: the early return is taken after the private view was written.
EarlyReturn_AfterWrite(op, status, editing, error) ==
    /\ last' = [Response(op, status, NoId, editing, <<>>, 1, {}, "none")
                  EXCEPT !.error = error]
    /\ private' = [k \in DOMAIN private |->
                      [private[k] EXCEPT !.paymentConfirmedAt = FALSE]]
    /\ UNCHANGED <<public, calendar, nextEvent, calendar_service, mail, inflight>>

\* A return (or an exception caught by the handler's except clauses) before
\* the handler has written, called the calendar or sent mail.
EarlyReturn(op, status, editing, error) ==
    /\ last' = [Response(op, status, NoId, editing, <<>>, 0, {}, "none")
                  EXCEPT !.error = error]
    /\ UNCHANGED <<public, private, calendar, nextEvent, calendar_service, mail, inflight>>

\* booking_data.get(key, default)
Get(booking_data, key, default) ==
    IF key \in DOMAIN booking_data THEN booking_data[key] ELSE default

\* The locals confirm_booking takes from booking_data once date, time and
\* duration are known to be there.
Locals(booking_data) ==
    [date |-> booking_data["date"], time |-> booking_data["time"],
     duration |-> booking_data["duration"],
     userTimeZone |-> Get(booking_data, "userTimeZone", "UTC"),
     paymentStatus |-> Get(booking_data, "paymentStatus", "pending")]

\* POST /api/confirm-booking as received: Authorization header auth, body
\* with bookingData booking_data (a dict, the keys it has are its domain) and
\* editingBookingId editing.  A KeyError for date, time, duration or total is
\* caught by the last except clause of the handler, which answers 500; total
\* is read after the conflict loop.
ConfirmBookingRequest(auth, booking_data, editing) ==
    IF ~VerifyToken(auth)
    THEN EarlyReturn("confirm_booking", 401, editing, TokenError(auth))
    ELSE IF DOMAIN booking_data = {}
    THEN EarlyReturn("confirm_booking", 400, editing, MissingData)
    ELSE IF ~({"date", "time", "duration"} \subseteq DOMAIN booking_data)
    THEN EarlyReturn("confirm_booking", 500, editing, KeyError)
    ELSE IF \/ LocalTz(Locals(booking_data).userTimeZone) = NoZone
            \/ ~WellFormedTime(Locals(booking_data).time)
    THEN EarlyReturn("confirm_booking", 400, editing, InvalidFormat)
    ELSE IF /\ "total" \notin DOMAIN booking_data
            /\ ~EndsAfterClosing(Locals(booking_data))
            /\ ConflictingSlots(public, Locals(booking_data), editing) = <<>>
    THEN EarlyReturn("confirm_booking", 500, editing, KeyError)
    ELSE ConfirmBooking(auth, Locals(booking_data), editing)

\* POST /api/confirm-payment as received: bookingId id, NoId when the body
\* has none.
ConfirmPaymentRequest(auth, id) ==
    IF ~VerifyToken(auth)
    THEN EarlyReturn("confirm_payment", 401, NoId, TokenError(auth))
    ELSE IF id = NoId
    THEN EarlyReturn("confirm_payment", 400, NoId, MissingBookingId)
    ELSE ConfirmPayment(auth, id)

\* DELETE /api/cancel-calendar-event as received: calendarEventId e and
\* bookingId id, NoEvent and NoId when the body has none.
CancelCalendarEventRequest(auth, e, id) ==
    IF ~VerifyToken(auth)
    THEN EarlyReturn("cancel_calendar_event", 401, NoId, TokenError(auth))
    ELSE IF e = NoEvent
    THEN EarlyReturn("cancel_calendar_event", 400, NoId, MissingEventIdField)
    ELSE IF id = NoId
    THEN EarlyReturn("cancel_calendar_event", 400, NoId, MissingBookingIdField)
    ELSE CancelCalendarEvent(auth, e, id)

\* The keys of bookingData.
BookingKeys == {"date", "time", "duration", "userTimeZone", "paymentStatus", "total"}

\* bookingData with all its keys: 10:00 or the malformed "25:00" of date 0,
\* in the studio's zone or in a zone pytz does not know.
CompleteData ==
    {[date |-> 0, time |-> t, duration |-> 2, userTimeZone |-> tz,
      paymentStatus |-> "pending", total |-> 100] :
        t \in {<<10, 0>>, <<25, 0>>}, tz \in {"Asia/Makassar", "Mars/Phobos"}}

\* The dict without the keys of keys.
Without(booking_data, keys) ==
    [k \in DOMAIN booking_data \ keys |-> booking_data[k]]

\* The bookingData of the requests as received: complete, and the well-formed
\* ones also with one key missing and empty.
ReceivedData ==
    CompleteData \cup
    {Without(bd, keys) : bd \in {c \in CompleteData : c.time = <<10, 0>>
                                                  /\ c.userTimeZone = "Asia/Makassar"},
                         keys \in {BookingKeys} \cup {{k} : k \in BookingKeys}}

NextReceived ==
    \/ \E auth \in Tokens, bd \in ReceivedData, editing \in Ids \cup {NoId} :
          ConfirmBookingRequest(auth, bd, editing)
    \/ \E auth \in Tokens, id \in Ids \cup {NoId} : ConfirmPaymentRequest(auth, id)
    \/ \E auth \in Tokens, e \in EventIds \cup {NoEvent}, id \in Ids \cup {NoId} :
          CancelCalendarEventRequest(auth, e, id)

\* Requests arrive with any Authorization header and any body, with the
\* calendar service available.
SpecReceived == InitCalendar /\ [][NextReceived]_vars

\* ================================================================= claims

\* The elements of a list.
Range(seq) == {seq[i] : i \in 1..Len(seq)}

\* Two canonical intervals overlap: A.start < B.end and A.end > B.start.
Overlap(a, b) == StartUtc(a) < EndUtc(b) /\ EndUtc(a) > StartUtc(b)

\* The canonical intervals touch: one ends at the instant the other starts.
Touching(a, b) == EndUtc(a) = StartUtc(b) \/ EndUtc(b) = StartUtc(a)

\* The requests whose date, time, duration and zone are those of document doc.
SameSlot(doc) ==
    {bd \in BookingData : /\ bd.date = doc.date /\ bd.time = doc.time
                          /\ bd.duration = doc.duration
                          /\ bd.userTimeZone = doc.userTimeZone}

C2_HalfOpenOverlapTest ==
    [][\A u \in Bookers : \A bd \in SequentialData : \A editing \in Ids \cup {NoId} :
         (/\ last'.op = "confirm_booking"
          /\ last'.editing = editing
          /\ ~EndsAfterClosing(bd)
          /\ ConfirmBooking(u, bd, editing))
         => \A id \in DOMAIN public :
               /\ (id # editing /\ public[id].date = bd.date)
                     => (id \in Range(last'.slots) <=> Overlap(bd, public[id]))
               /\ OverlapTest(bd, public[id]) = OverlapTest(public[id], bd)
               /\ Touching(bd, public[id]) => id \notin Range(last'.slots)]_vars

\* C2 witness: a request was rejected for a conflict with a booking made in
\* another zone, while a booking that touches its interval is not reported.
C2_Witness ==
    /\ last.op = "confirm_booking" /\ last.status = 409 /\ Len(last.slots) = 1
    /\ \E bd \in SequentialData : \E id \in DOMAIN public :
          /\ Range(last.slots) = {id}
          /\ bd.userTimeZone # public[id].userTimeZone
          /\ ConflictingSlots(public, bd, last.editing) = last.slots
          /\ \E other \in DOMAIN public \ {id} : Touching(bd, public[other])

\* C3: a ConfirmBooking (Create or Edit) whose interval overlaps a booking of
\* its date returns 409 and writes to neither view, makes no calendar call
\* and sends no mail.
C3_ConflictAbortsBeforeWrites ==
    [][\A u \in Users : \A bd \in CalendarData : \A editing \in Ids \cup {NoId} :
         (/\ last'.op = "confirm_booking"
          /\ last'.editing = editing
          /\ \E id \in DOMAIN public :
                id # editing /\ public[id].date = bd.date /\ Overlap(bd, public[id])
          /\ ConfirmBooking(u, bd, editing))
         => /\ last'.status = 409
            /\ UNCHANGED <<public, private, calendar, nextEvent>>
            /\ last'.writes = 0
            /\ last'.mails = {}
            /\ last'.calendarCall = "none"]_vars

\* C3 witness: with the calendar available and an event in it, the Edit of
\* a booking was rejected for a conflict with another booking.
C3_Witness ==
    /\ calendar_service /\ DOMAIN calendar # {}
    /\ last.op = "confirm_booking" /\ last.status = 409
    /\ last.editing \in DOMAIN public
    /\ last.slots # <<>> /\ last.editing \notin Range(last.slots)

\* C4: the conflictingSlots of a rejected request are exactly the bookings of
\* the request's date, other than the one being edited, that overlap it.
C4_AllConflictsReported ==
    [][\A u \in Bookers : \A bd \in SequentialData : \A editing \in Ids \cup {NoId} :
         (/\ last'.op = "confirm_booking"
          /\ last'.editing = editing
          /\ last'.slots # <<>>
          /\ ConfirmBooking(u, bd, editing))
         => /\ last'.status = 409
            /\ Range(last'.slots) =
                  {id \in DOMAIN public : /\ public[id].date = bd.date
                                          /\ id # editing
                                          /\ Overlap(bd, public[id])}]_vars

\* C4 witness: a rejected request whose conflictingSlots name two bookings.
C4_Witness ==
    /\ last.op = "confirm_booking" /\ last.status = 409
    /\ Len(last.slots) = 2 /\ Cardinality(Range(last.slots)) = 2

\* C5: an Edit never lists the booking being edited among its conflicts, and
\* the Edit that repeats the date, time, duration and zone of the booking a
\* Create has just written is accepted.
C5_NoSelfConflict ==
    [][\A u \in Bookers : \A bd \in SequentialData : \A editing \in Ids :
         (/\ last'.op = "confirm_booking"
          /\ last'.editing = editing
          /\ ConfirmBooking(u, bd, editing))
         => /\ editing \notin Range(last'.slots)
            /\ (/\ last.op = "confirm_booking" /\ last.status = 200
                /\ last.editing = NoId /\ last.bookingId = editing
                /\ bd \in SameSlot(public[editing]))
               => (last'.status = 200 /\ last'.bookingId = editing)]_vars

\* C5 witness: the Edit of a booking to the slot it already has was accepted
\* while the public view holds another booking of the same date.
C5_Witness ==
    /\ last.op = "confirm_booking" /\ last.status = 200 /\ last.editing # NoId
    /\ last.editing \in DOMAIN public
    /\ \E other \in DOMAIN public \ {last.editing} :
          /\ public[other].date = public[last.editing].date
          /\ Touching(public[other], public[last.editing])

\* The public view pub holds booking b alone, at time t of date 0 for two hours
\* in zone tz.
OnlyBooking(pub, b, t, tz) ==
    /\ DOMAIN pub = {b}
    /\ pub[b].date = 0 /\ pub[b].time = t
    /\ pub[b].duration = 2 /\ pub[b].userTimeZone = tz

\* A request for time t of date 0, two hours, zone tz.
SlotRequest(t, tz) ==
    [date |-> 0, time |-> t, duration |-> 2, userTimeZone |-> tz,
     paymentStatus |-> "pending"]

\* The scenario of C6 in zone tz, one step at a time: from the empty store
\* the Create of 10:00-12:00 is accepted; with that booking alone the Create
\* of 11:00-13:00 is rejected with the booking among its conflicts and the Edit
\* of the booking to 13:00-15:00 is accepted; with the booking alone at
\* 13:00-15:00 the Create of 11:00-13:00 is accepted.
Scenario(tz) ==
    \A u \in Bookers : \A b \in Ids :
        /\ (/\ public = EmptyCollection /\ private = EmptyCollection
            /\ ConfirmBooking(u, SlotRequest(<<10, 0>>, tz), NoId))
           => (last'.status = 200 /\ OnlyBooking(public', last'.bookingId, <<10, 0>>, tz))
        /\ (/\ OnlyBooking(public, b, <<10, 0>>, tz)
            /\ ConfirmBooking(u, SlotRequest(<<11, 0>>, tz), NoId))
           => (last'.status = 409 /\ b \in Range(last'.slots))
        /\ (/\ OnlyBooking(public, b, <<10, 0>>, tz)
            /\ ConfirmBooking(u, SlotRequest(<<13, 0>>, tz), b))
           => (last'.status = 200 /\ OnlyBooking(public', b, <<13, 0>>, tz))
        /\ (/\ OnlyBooking(public, b, <<13, 0>>, tz)
            /\ ConfirmBooking(u, SlotRequest(<<11, 0>>, tz), NoId))
           => /\ last'.status = 200
              /\ DOMAIN public' = {b, last'.bookingId}
              /\ last'.bookingId # b
              /\ public'[last'.bookingId].time = <<11, 0>>

\* C6 as stated: the scenario with the bookings made in zone UTC.
C6_ScenarioUtc == [][Scenario("UTC")]_vars

\* C6 amended: the scenario with the bookings made in zone Asia/Makassar.
C6_ScenarioMakassar == [][Scenario("Asia/Makassar")]_vars

\* C6 witness: the end of the scenario, booking #1 at 13:00-15:00 and
\* booking #2 just created at 11:00-13:00, both in zone Asia/Makassar.
C6_Witness ==
    /\ last.op = "confirm_booking" /\ last.status = 200 /\ last.editing = NoId
    /\ \E b \in DOMAIN public :
          /\ DOMAIN public = {b, last.bookingId} /\ b # last.bookingId
          /\ public[b].time = <<13, 0>> /\ public[b].userTimeZone = "Asia/Makassar"
          /\ public[last.bookingId].time = <<11, 0>>
          /\ public[last.bookingId].userTimeZone = "Asia/Makassar"

\* C7: an Edit by a user other than the owner of the booking is rejected and
\* leaves both views as they are; the owner of a booking never changes.
C7_NonOwnerEditRejected ==
    [][/\ \A u \in Users : \A bd \in SharedData : \A editing \in DOMAIN public :
            (/\ last'.op = "confirm_booking"
             /\ last'.editing = editing
             /\ public[editing].userId # u
             /\ ConfirmBooking(u, bd, editing))
            => (last'.status # 200 /\ UNCHANGED <<public, private>>)
       /\ \A id \in DOMAIN public :
            id \in DOMAIN public' /\ public'[id].userId = public[id].userId]_vars

\* C8: once a booking is paid by a payment confirmation, no request sets its
\* paymentStatus back to pending.
C8_PaymentMonotonic ==
    [][\A id \in DOMAIN public :
         (public[id].paymentStatus = "paid" /\ public[id].paymentConfirmedAt)
         => (id \in DOMAIN public' /\ public'[id].paymentStatus = "paid")]_vars

\* C9: a ConfirmPayment of an existing booking returns success and leaves it
\* paid; it sends one notification when it finds the booking pending; and the
\* ConfirmPayment that follows a ConfirmPayment of the same booking writes
\* nothing and sends nothing.
C9_ConfirmPaymentIdempotent ==
    [][\A admin \in Users : \A id \in DOMAIN public :
         (last'.op = "confirm_payment" /\ ConfirmPayment(admin, id))
         => /\ last'.status = 200
            /\ public'[id].paymentStatus = "paid"
            /\ public[id].paymentStatus = "pending" => last'.mails = {"payment"}
            /\ (last.op = "confirm_payment" /\ last.status = 200 /\ last.bookingId = id)
               => (/\ UNCHANGED <<public, private>>
                   /\ last'.writes = 0
                   /\ last'.mails = {}
                   /\ Cardinality(last.mails) + Cardinality(last'.mails) <= 1)]_vars

\* C9 witness: the second of two ConfirmPayment calls has answered: the
\* booking is paid and the call sent nothing.
C9_Witness ==
    /\ last.op = "confirm_payment" /\ last.status = 200 /\ last.mails = {}
    /\ last.bookingId \in DOMAIN public
    /\ public[last.bookingId].paymentStatus = "paid"
    /\ public[last.bookingId].paymentConfirmedAt

\* C10: the conflict check and the writes are not one atomic step: a request
\* that passed its check makes its public write and answers 200 whatever the
\* public view holds by then, so that two Creates with overlapping intervals
\* handled at the same time are both stored.
C10_WritesFollowStaleCheck ==
    [][\A w \in Workers :
         (/\ w \in DOMAIN inflight
          /\ inflight[w].pc = "private_written"
          /\ inflight'[w].pc = "done")
         => /\ last'.status = 200
            /\ last'.bookingId = inflight[w].id
            /\ inflight[w].id \in DOMAIN public'
            /\ public'[inflight[w].id].time = inflight[w].bd.time
            /\ \A id \in DOMAIN public :
                 id # inflight[w].id => (id \in DOMAIN public' /\ public'[id] = public[id])]_vars

\* C10 witness: both workers answered a Create with 200 and the public view
\* holds both bookings, which overlap.
C10_Witness ==
    /\ Workers \subseteq DOMAIN inflight
    /\ \A w \in Workers :
         /\ inflight[w].pc = "done" /\ inflight[w].editing = NoId
         /\ inflight[w].id \in DOMAIN public
         /\ public[inflight[w].id].time = inflight[w].bd.time
    /\ inflight[1].id # inflight[2].id
    /\ Overlap(public[inflight[1].id], public[inflight[2].id])

\* C11: a Cancel of a booking by its owner that returns success leaves the
\* records in both views (no physical delete) and takes the booking out of
\* later conflict checks: a Create for the interval the booking had would
\* find no conflict with it.
C11_CancelFreesSlot ==
    [][\A u \in Users : \A e \in EventIds : \A id \in DOMAIN public :
         (/\ last'.op = "cancel_calendar_event"
          /\ last'.status = 200
          /\ public[id].userId = u
          /\ CancelCalendarEvent(u, e, id))
         => /\ id \in DOMAIN public' /\ <<u, id>> \in DOMAIN private'
            /\ id \notin Range(ConflictingSlots(public', public[id], NoId))]_vars

\* C12: cancellation is idempotent: a Cancel for a booking id the store does
\* not hold, or for a calendar event that is already gone, returns success
\* (other failures of the calendar call set aside).
C12_CancelIdempotent ==
    [][\A u \in Users : \A e \in EventIds : \A id \in Ids :
         (/\ last'.op = "cancel_calendar_event"
          /\ last'.calendarCall # "delete_failed"
          /\ (e \notin DOMAIN calendar \/ id \notin DOMAIN public)
          /\ CancelCalendarEvent(u, e, id))
         => last'.status = 200]_vars

\* C13: a Cancel by a caller who is not the owner of the booking is rejected
\* (no success response) and changes neither the records of the booking nor
\* the remote calendar.
C13_NonOwnerCancelRejected ==
    [][\A u \in Users : \A e \in EventIds : \A id \in DOMAIN public :
         (/\ last'.op = "cancel_calendar_event"
          /\ public[id].userId # u
          /\ CancelCalendarEvent(u, e, id))
         => /\ last'.status # 200
            /\ UNCHANGED <<public, private, calendar>>]_vars

\* C14: a ConfirmPayment by a caller who is not the owner of the booking does
\* not set the booking to paid in either view.
C14_PaymentNeedsAuthorization ==
    [][\A admin \in Users : \A id \in DOMAIN public :
         (/\ last'.op = "confirm_payment"
          /\ public[id].userId # admin
          /\ public[id].paymentStatus # "paid"
          /\ ConfirmPayment(admin, id))
         => /\ public'[id].paymentStatus # "paid"
            /\ \A k \in DOMAIN private' :
                 k[2] = id => private'[k].paymentStatus # "paid"]_vars

\* C15: a booking has at most one live remote calendar event at any time: the
\* remote calendar never holds two events that refer to the same booking.
C15_OneEventPerBooking ==
    \A id \in Ids : Cardinality({e \in DOMAIN calendar : calendar[e] = id}) <= 1

\* Two documents are equal apart from their calendarEventId.
SameButEvent(a, b) ==
    [a EXCEPT !.calendarEventId = NoEvent] = [b EXCEPT !.calendarEventId = NoEvent]

\* C16: a failure of the calendar call or of the sending of a mail during a
\* ConfirmBooking or a ConfirmPayment that passed its checks does not abort the
\* request or undo its store writes: the request returns 200 and both views
\* hold the booking as written.
C16_FailuresDoNotAbort ==
    [][/\ \A u \in Users : \A bd \in DegradedData : \A editing \in Ids \cup {NoId} :
            (/\ last'.op = "confirm_booking"
             /\ last'.editing = editing
             /\ (last'.calendarCall = "insert_failed" \/ last'.failed # {})
             /\ ~EndsAfterClosing(bd)
             /\ ConflictingSlots(public, bd, editing) = <<>>
             /\ ConfirmBooking(u, bd, editing))
            => /\ last'.status = 200
               /\ last'.bookingId \in DOMAIN public'
               /\ <<u, last'.bookingId>> \in DOMAIN private'
               /\ LET id == last'.bookingId
                      written == BookingWrites(public, private, u, id,
                                               FirestoreBookingData(u, bd), editing)
                  IN /\ SameButEvent(public'[id], written[1][id])
                     /\ SameButEvent(private'[<<u, id>>], written[2][<<u, id>>])
                     /\ last'.calendarCall = "insert_failed"
                           => (public' = written[1] /\ private' = written[2])
       /\ \A admin \in Users : \A id \in DOMAIN public :
            (/\ last'.op = "confirm_payment"
             /\ last'.failed # {}
             /\ ConfirmPayment(admin, id))
            => /\ last'.status = 200
               /\ public'[id].paymentStatus = "paid"
               /\ <<public[id].userId, id>> \in DOMAIN private'
               /\ private'[<<public[id].userId, id>>].paymentStatus = "paid"]_vars

\* C16 witness: a ConfirmBooking returned 200 although the calendar insert
\* failed and neither mail could be sent; both views hold the booking.
C16_Witness ==
    /\ last.op = "confirm_booking" /\ last.status = 200
    /\ last.calendarCall = "insert_failed"
    /\ last.failed = {"client", "admin"}
    /\ last.bookingId \in DOMAIN public
    /\ <<public[last.bookingId].userId, last.bookingId>> \in DOMAIN private

\* The event id of a successful insert of the step is stored on booking id of
\* user u in both views, and the remote calendar holds that event, new and
\* referring to the booking.
EventIdStored(u, id) ==
    LET e == public'[id].calendarEventId IN
    /\ e # NoEvent
    /\ e \notin DOMAIN calendar /\ e \in DOMAIN calendar' /\ calendar'[e] = id
    /\ private'[<<u, id>>].calendarEventId = e

\* The step left the views as the two store writes of the request leave them.
NothingRecorded(u, bd, editing, id) ==
    LET written == BookingWrites(public, private, u, id,
                                 FirestoreBookingData(u, bd), editing)
    IN public' = written[1] /\ private' = written[2]

\* The outcome of the calendar insert of an accepted ConfirmBooking: after a
\* successful insert the event id is stored; after a failed one something is
\* recorded on the booking besides the data of the request, or nothing is,
\* as recorded says.
InsertOutcome(recorded) ==
    \A u \in Users : \A bd \in DegradedData : \A editing \in Ids \cup {NoId} :
        (/\ last'.op = "confirm_booking"
         /\ last'.editing = editing
         /\ last'.status = 200
         /\ calendar_service
         /\ ConfirmBooking(u, bd, editing))
        => /\ last'.calendarCall = "insert" => EventIdStored(u, last'.bookingId)
           /\ last'.calendarCall = "insert_failed"
                 => (recorded = ~NothingRecorded(u, bd, editing, last'.bookingId))

BookingFields(doc) ==
    <<doc.date, doc.time, doc.duration, doc.userTimeZone, doc.userId,
      doc.paymentStatus>>

PrivateVariants(doc) ==
    {[doc EXCEPT !.paymentStatus = ps, !.paymentConfirmedAt = stamp,
                 !.userId = u, !.userEmail = EmailOf(u)] :
        ps \in {"pending", "paid"}, stamp \in BOOLEAN, u \in Users}

\* The public views that differ from pub only in those fields.
StoreVariants(pub) ==
    {other \in [DOMAIN pub -> UNION {PrivateVariants(pub[id]) : id \in DOMAIN pub}] :
        \A id \in DOMAIN pub : other[id] \in PrivateVariants(pub[id])}

\* C19: the response of ListBookedSlots(date) has, for every booking of the
\* date in the public view, the id, time, duration, display name and time
\* zone and nothing else, and is the same for every store that differs only in
\* payment fields and in the identity and e-mail of the owners.
C19_BookedSlotsHidePrivateFields ==
    [][\A u \in Users : \A date \in Dates :
         (last'.op = "check_booked_slots" /\ CheckBookedSlots(u, date))
         => /\ last'.status = 200
            /\ {slot.id : slot \in Range(last'.slots)}
                  = {id \in DOMAIN public : public[id].date = date}
            /\ \A slot \in Range(last'.slots) :
                  /\ DOMAIN slot = {"id", "time", "duration", "userName", "userTimeZone"}
                  /\ slot.time = public[slot.id].time
                  /\ slot.duration = public[slot.id].duration
                  /\ slot.userName = public[slot.id].userName
                  /\ slot.userTimeZone = public[slot.id].userTimeZone
            /\ \A other \in StoreVariants(public) :
                  BookedSlots(other, date) = last'.slots]_vars

\* C19 witness: the list of a date was returned with two bookings in it, one
\* of them paid.
C19_Witness ==
    /\ last.op = "check_booked_slots" /\ last.status = 200
    /\ Len(last.slots) = 2
    /\ \E slot \in Range(last.slots) :
          slot.id \in DOMAIN public /\ public[slot.id].paymentStatus = "paid"

\* C20: every booking held in the store has a duration greater than zero, and
\* a ConfirmBooking whose duration is zero or negative writes nothing.
C20_PositiveDuration ==
    /\ \A id \in DOMAIN public : public[id].duration > 0
    /\ \A k \in DOMAIN private : private[k].duration > 0
    /\ (last.op = "confirm_booking" /\ last.status = 200)
          => public[last.bookingId].duration > 0

\* The step is a ConfirmBooking that was answered with status and message
\* error and did nothing else: no store write, no calendar call, no mail.
RejectedUntouched(status, error) ==
    /\ last'.status = status /\ last'.error = error
    /\ UNCHANGED <<public, private, calendar, nextEvent>>
    /\ last'.writes = 0 /\ last'.mails = {} /\ last'.calendarCall = "none"

\* The bookingData with date, time and duration whose userTimeZone is a name
\* pytz does not resolve.
UnknownZoneData ==
    {bd \in ReceivedData :
        /\ {"date", "time", "duration", "userTimeZone"} \subseteq DOMAIN bd
        /\ bd.userTimeZone \notin Zones}

\* C21: an authenticated ConfirmBooking whose time zone name does not resolve is answered 400
\* and writes nothing, and no booking of the store carries a zone name that
\* does not resolve: the request is never booked against a default zone.
C21_UnknownZoneRejected ==
    [][/\ \A auth \in Bookers : \A bd \in UnknownZoneData : \A editing \in Ids \cup {NoId} :
            (/\ last'.op = "confirm_booking"
             /\ last'.editing = editing
             /\ ConfirmBookingRequest(auth, bd, editing))
            => RejectedUntouched(400, InvalidFormat)
       /\ \A id \in DOMAIN public' : public'[id].userTimeZone \in Zones
       /\ \A k \in DOMAIN private' : private'[k].userTimeZone \in Zones]_vars

\* C21 witness: an Edit of a stored booking that has a calendar event was
\* answered 400 for its time zone or format.
C21_Witness ==
    /\ last.op = "confirm_booking" /\ last.status = 400 /\ last.error = InvalidFormat
    /\ last.editing \in DOMAIN public
    /\ public[last.editing].calendarEventId # NoEvent

\* The step wrote to neither view, left the calendar alone and sent no mail.
Untouched ==
    /\ UNCHANGED <<public, private, calendar, nextEvent>>
    /\ last'.writes = 0 /\ last'.mails = {} /\ last'.calendarCall = "none"

\* The keys a bookingData must have.
RequiredKeys == {"date", "time", "duration", "total"}

\* The bookingData fails validation: it is empty, lacks a required key, names
\* a zone that does not resolve or has a malformed time.
InvalidData(bd) ==
    IF ~(RequiredKeys \subseteq DOMAIN bd) THEN TRUE
    ELSE Get(bd, "userTimeZone", "UTC") \notin Zones \/ ~WellFormedTime(bd.time)

\* The bookingData received that fail validation.
InvalidReceived == {bd \in ReceivedData : InvalidData(bd)}

\* The Authorization headers that fail authentication.
RefusedTokens == {auth \in Tokens : ~VerifyToken(auth)}

\* The status that answers invalid bookingData bd when a dict that lacks a
\* required key is answered with missingKey: 400 for an empty dict; missingKey
\* for a dict without date, time or duration; 400 for an unknown zone or a
\* malformed time; for a dict that only lacks total, 409 when the request ends
\* after closing time or conflicts and missingKey otherwise.
StatusOfInvalid(bd, editing, missingKey) ==
    IF DOMAIN bd = {} THEN {400}
    ELSE IF ~({"date", "time", "duration"} \subseteq DOMAIN bd) THEN {missingKey}
    ELSE IF Get(bd, "userTimeZone", "UTC") \notin Zones \/ ~WellFormedTime(bd.time)
    THEN {400}
    ELSE IF missingKey = 400 THEN {400}
    ELSE IF \/ EndsAfterClosing(Locals(bd))
            \/ ConflictingSlots(public, Locals(bd), editing) # <<>>
    THEN {409}
    ELSE {missingKey}

\* Requests that fail authentication or validation are aborted before any
\* write: every request with a missing or refused token is answered 401, a
\* ConfirmPayment or Cancel without its ids 400, a ConfirmBooking with invalid
\* bookingData as StatusOfInvalid says, and none of them writes, calls the
\* calendar or sends mail.
InvalidAborted(missingKey) ==
    /\ last'.op = "confirm_booking" =>
          \A auth \in Tokens : \A bd \in ReceivedData :
              (/\ (auth \in RefusedTokens \/ bd \in InvalidReceived)
               /\ ConfirmBookingRequest(auth, bd, last'.editing))
              => /\ Untouched
                 /\ last'.status \in
                       (IF auth \in RefusedTokens THEN {401}
                        ELSE StatusOfInvalid(bd, last'.editing, missingKey))
    /\ last'.op = "confirm_payment" =>
          \A auth \in Tokens : \A id \in Ids \cup {NoId} :
              (/\ (auth \in RefusedTokens \/ id = NoId)
               /\ ConfirmPaymentRequest(auth, id))
              => /\ Untouched
                 /\ last'.status = (IF auth \in RefusedTokens THEN 401 ELSE 400)
    /\ last'.op = "cancel_calendar_event" =>
          \A auth \in Tokens : \A e \in EventIds \cup {NoEvent} : \A id \in Ids \cup {NoId} :
              (/\ (auth \in RefusedTokens \/ e = NoEvent \/ id = NoId)
               /\ CancelCalendarEventRequest(auth, e, id))
              => /\ Untouched
                 /\ last'.status = (IF auth \in RefusedTokens THEN 401 ELSE 400)

PrivateIds(priv) == {k[2] : k \in DOMAIN priv}

\* C23: booking ids are assigned by the store at Create and are stable: an
\* Edit adds no booking id to either view (an editingBookingId the store does
\* not hold creates no record), and the accepted Edit of a stored booking
\* keeps its id.
C23_IdsGrowOnlyThroughCreate ==
    [][\A u \in Bookers : \A bd \in SequentialData : \A editing \in Ids :
         (/\ last'.op = "confirm_booking"
          /\ last'.editing = editing
          /\ ConfirmBooking(u, bd, editing))
         => /\ DOMAIN public' \subseteq DOMAIN public
            /\ PrivateIds(private') \subseteq PrivateIds(private)
            /\ (last'.status = 200 /\ editing \in DOMAIN public)
                  => (last'.bookingId = editing /\ DOMAIN public' = DOMAIN public)]_vars

\* The fields of a record a payment confirmation has no business with.
SlotFields(doc) ==
    <<doc.date, doc.time, doc.duration, doc.userTimeZone, doc.userId>>

\* C24: ConfirmPayment is a single-field transition: each of its two writes
\* changes only the payment fields of the booking and leaves date, time,
\* duration, time zone and owner as they are in the store at the moment of
\* the write, also when an Edit of the booking came between its read and its
\* writes.
C24_PaymentSingleField ==
    [][\A w \in PaymentWorkers :
         (w \in DOMAIN inflight /\ w \in DOMAIN inflight') =>
            LET r == inflight[w]
                k == <<r.bd.userId, r.id>>
            IN /\ (r.pc = "read" /\ inflight'[w].pc = "public_paid")
                     => /\ SlotFields(public'[r.id]) = SlotFields(public[r.id])
                        /\ public'[r.id].paymentStatus = "paid"
               /\ (r.pc = "public_paid" /\ inflight'[w].pc = "done" /\ k \in DOMAIN private)
                     => /\ SlotFields(private'[k]) = SlotFields(private[k])
                        /\ private'[k].paymentStatus = "paid"]_vars

\* C25: a ConfirmPayment for a booking id that is not in the public view is
\* answered 404, writes to neither view and sends no notification.
C25_UnknownBookingNotFound ==
    [][\A admin \in Users : \A id \in Ids \ DOMAIN public :
         (last'.op = "confirm_payment" /\ ConfirmPayment(admin, id))
         => (last'.status = 404 /\ Untouched)]_vars

\* C25 witness: a ConfirmPayment was answered 404 while the store holds
\* another booking, still pending.
C25_Witness ==
    /\ last.op = "confirm_payment" /\ last.status = 404
    /\ \E id \in DOMAIN public : public[id].paymentStatus = "pending"
    /\ DOMAIN public # Ids

\* Both views hold booking id with the slot of request bd.
Written(id, bd) ==
    /\ id \in DOMAIN public
    /\ public[id].time = bd.time /\ public[id].date = bd.date
    /\ \E u \in Users :
          /\ <<u, id>> \in DOMAIN private
          /\ private[<<u, id>>].time = bd.time /\ private[<<u, id>>].date = bd.date

\* C26: in an accepted ConfirmBooking the writes of the private and of the
\* public record are complete when the calendar call is made, and the
\* calendar call has been made (or skipped for want of a calendar service) when
\* the notifications are sent; a request that has not written makes no
\* calendar call and sends no notification.
C26_WritesThenCalendarThenMail ==
    [][\A w \in BookingWorkers :
         (w \in DOMAIN inflight /\ w \in DOMAIN inflight') =>
            LET r == inflight[w] IN
            /\ (calendar' # calendar \/ nextEvent' # nextEvent
                   \/ inflight'[w].pc \in {"inserted", "insert_failed"})
                  => Written(r.id, r.bd)
            /\ (last'.seq # last.seq /\ last'.mails # {})
                  => /\ Written(r.id, r.bd)
                     /\ last'.bookingId = r.id
                     /\ calendar_service => last'.calendarCall \in {"insert", "insert_failed"}
                     /\ last'.calendarCall = "insert"
                           => \E e \in DOMAIN calendar :
                                 calendar[e] = r.id /\ public[r.id].calendarEventId = e
            /\ (last'.seq # last.seq /\ last'.status # 200)
                  => /\ last'.mails = {} /\ last'.calendarCall = "none"
                     /\ UNCHANGED <<public, private, calendar, nextEvent>>]_vars

\* C26 witness: an Edit was answered 200 after its calendar insert, the
\* booking carrying the event the calendar holds for it.
C26_Witness ==
    /\ last.op = "confirm_booking" /\ last.status = 200 /\ last.editing # NoId
    /\ last.calendarCall = "insert" /\ last.mails = {"client", "admin"}
    /\ 1 \in DOMAIN inflight /\ inflight[1].pc = "done"
    /\ last.bookingId \in DOMAIN public
    /\ public[last.bookingId].calendarEventId \in DOMAIN calendar

\* 10:00 UTC of a date string, which is 18:00 in Asia/Makassar (UTC+8).
TenUtc(date) == date * 1440 + 10 * 60

\* The requests that end later than 10:00 UTC of their date string.
LateData == {bd \in ClosingData : EndUtc(bd) > TenUtc(bd.date)}

\* C27: a ConfirmBooking whose canonical end instant is later than 18:00
\* Asia/Makassar of the request's date is answered 409 and writes nothing,
\* whatever the zone of the request; every booking of the store ends at or
\* before 10:00 UTC of its own date string.
C27_ClosingTimeEnforced ==
    [][/\ \A u \in Bookers : \A bd \in LateData : \A editing \in Ids \cup {NoId} :
            (/\ last'.op = "confirm_booking"
             /\ last'.editing = editing
             /\ ConfirmBooking(u, bd, editing))
            => (last'.status = 409 /\ Untouched)
       /\ \A id \in DOMAIN public' : EndUtc(public'[id]) <= TenUtc(public'[id].date)
       /\ \A k \in DOMAIN private' : EndUtc(private'[k]) <= TenUtc(private'[k].date)]_vars

\* C27 witness: a request was rejected without conflicting slots while the
\* store holds, on two dates, bookings that end exactly at closing time, one
\* of them made in another zone than the studio's.
C27_Witness ==
    /\ last.op = "confirm_booking" /\ last.status = 409 /\ last.slots = <<>>
    /\ \E a \in DOMAIN public : \E b \in DOMAIN public :
          /\ public[a].date # public[b].date
          /\ public[a].userTimeZone # "Asia/Makassar"
          /\ EndUtc(public[a]) = TenUtc(public[a].date)
          /\ EndUtc(public[b]) = TenUtc(public[b].date)

\* The bookings of the public view, of any date, that overlap request bd,
\* the booking being edited set aside.
OverlappingAnyDate(bd, editing) ==
    {id \in DOMAIN public : id # editing /\ Overlap(bd, public[id])}

StoredEventIds(view) == [k \in DOMAIN view |-> view[k].calendarEventId]

\* C29: cancel_calendar_event removes the stored event id of a booking only
\* after the remote delete succeeded: when the calendar service is not
\* available (answered 200) or the remote delete fails (answered 500) the
\* stored event ids of both views are unchanged, and a Cancel that changes a
\* stored event id has deleted its event from the remote calendar.
C29_EventIdKeptUnlessDeleted ==
    [][\A u \in Users : \A e \in EventIds : \A id \in Ids :
         (last'.op = "cancel_calendar_event" /\ CancelCalendarEvent(u, e, id))
         => /\ ~calendar_service
                  => (last'.status = 200 /\ UNCHANGED <<public, private, calendar>>)
            /\ last'.calendarCall \in {"delete_failed", "delete_gone"}
                  => /\ last'.status = 500
                     /\ StoredEventIds(public') = StoredEventIds(public)
                     /\ StoredEventIds(private') = StoredEventIds(private)
                     /\ calendar' = calendar
            /\ (\/ StoredEventIds(public') # StoredEventIds(public)
                \/ StoredEventIds(private') # StoredEventIds(private))
                  => (e \in DOMAIN calendar /\ e \notin DOMAIN calendar')]_vars

\* C29 witness: a Cancel was answered 200 without calendar service while the
\* booking carries the id of an event the remote calendar holds.
C29_Witness ==
    /\ ~calendar_service
    /\ last.op = "cancel_calendar_event" /\ last.status = 200
    /\ \E id \in DOMAIN public :
          /\ public[id].calendarEventId \in DOMAIN calendar
          /\ private[<<public[id].userId, id>>].calendarEventId = public[id].calendarEventId

\* C30: a ConfirmBooking that returned an error has left the store
\* unchanged, also when a store write failed part-way: once it has answered,
\* every record of the private view has a record in the public view under the
\* same id, with the same date, time, duration, time zone and owner.
C30_ErrorLeavesNoOrphan ==
    (/\ \A w \in BookingWorkers : Idle(w)
     /\ last.op = "confirm_booking" /\ last.status # 200)
    => \A k \in DOMAIN private :
          /\ k[2] \in DOMAIN public
          /\ SlotFields(private[k]) = SlotFields(public[k[2]])
====
